---- MODULE Spec2Model ----
(***************************************************************************)
(* terminal-trx: a readable and writable handle to the terminal of the     *)
(* process, the process-wide terminal lock and the raw-mode guard.         *)
(*                                                                         *)
(* Specifications sharing the definitions below:                           *)
(*   Spec             the lock protocol of lib.rs / unix.rs with the       *)
(*                    raw-mode guard, run by several threads;              *)
(*   SpecResolve      calls of terminal() against every environment of     *)
(*                    the three standard streams and /dev/tty;             *)
(*   SpecControlling  terminal() and lock() in a process none of whose     *)
(*                    standard streams is a terminal;                      *)
(*   SpecNested       raw-mode guards of several lock holders attached to  *)
(*                    the same terminal device, released in LIFO order;    *)
(*   SpecIo           read / write / flush on a Terminal;                  *)
(*   SpecDeadlock     the lock protocol against a thread locking several   *)
(*                    standard streams directly, with fairness;            *)
(*   SpecWindows      windows.rs resolution and raw mode;                  *)
(*   SpecError        io_error.rs shared_io_error.                         *)
(***************************************************************************)
EXTENDS Integers, Sequences, FiniteSets, TLC

VARIABLES
    env,          \* the standard streams and /dev/tty as the OS presents them
    term,         \* term[t]: the Terminal handle thread t resolved
    pc,           \* pc[t]: where thread t is in lock() / drop
    mutexOwner,   \* holder of the static TERMINAL_LOCK, or NoThread
    poisoned,     \* the poison flag of TERMINAL_LOCK
    stdioOwner,   \* stdioOwner[s]: holder of the native lock of stream s
    panicking,    \* panicking[t]: thread t is unwinding from a panic
    lockResult,   \* lockResult[t]: what t's last lock() call returned
    guard,        \* guard[t]: the RawModeGuard t holds (its old_termios)
    mode,         \* the terminal mode the OS holds for the device
    rawInfo,      \* rawInfo[t]: history of t's current / last guard
    dpc,          \* dpc: what the direct stdio user holds
    calls,        \* outcomes of the terminal() calls made so far
    attempts,     \* number of resolution attempts performed so far
    guards,       \* SpecNested: the stack of live guards, outermost first
    nest,         \* SpecNested: history of the nested activation
    live,         \* calls whose Terminal value has not been dropped yet
    closed,       \* times this crate has closed a descriptor: closed.std[s] that
                  \* of stream s, closed.own[i] the one the i-th call opened
    op,           \* op[t]: the operation t called: lock, or read / write / flush
    dheld,        \* SpecDeadlock: streams the direct thread holds, in order taken
    dwant,        \* SpecDeadlock: the stream whose lock() the direct thread is in
    wenv,         \* SpecWindows: the standard handles and the console devices
    wterm,        \* SpecWindows: outcome of the last windows terminal() call
    wmode,        \* SpecWindows: the console mode of the input buffer
    wguard,       \* SpecWindows: the RawModeGuard alive, if any
    wlog,         \* SpecWindows: history of the last enable_raw_mode / drop
    stored,       \* SpecError: the io::Error kept behind an Arc
    clones,       \* SpecError: the errors shared_io_error has rebuilt from it
    firstMode,    \* history: the mode found by the first activation of raw mode
    restoreFailed \* history: some restoring write of a guard has failed

vars == <<env, term, pc, mutexOwner, poisoned, stdioOwner, panicking,
          lockResult, guard, mode, rawInfo, dpc, calls, attempts,
          guards, nest, live, closed, op, dheld, dwant,
          wenv, wterm, wmode, wguard, wlog, stored, clones,
          firstMode, restoreFailed>>

lockVars == <<term, pc, mutexOwner, poisoned, stdioOwner, panicking,
              lockResult, guard, rawInfo, dpc>>
resolveVars == <<calls, attempts>>
nestVars == <<guards, nest>>
fileVars == <<live, closed>>
directVars == <<dheld, dwant>>
winVars == <<wenv, wterm, wmode, wguard, wlog>>
errVars == <<stored, clones>>
histVars == <<firstMode, restoreFailed>>
\* the variables an action of the lock protocol, of the resolution or of the
\* nested guards never touches
otherVars == <<directVars, winVars, errVars, histVars>>

(***************************************************************************)
(* Bounds                                                                  *)
(***************************************************************************)
\* terminal() calls made in one behaviour of SpecResolve
MaxCalls == 2
\* depth of nested raw-mode guards in SpecNested
MaxDepth == 2
\* shared_io_error calls on one stored error in SpecError
MaxClones == 4

(***************************************************************************)
(* The environment: standard streams and the controlling terminal.         *)
(***************************************************************************)
Streams == {"stdin", "stdout", "stderr"}

\* What a standard stream can be connected to: one of two terminal devices
\* or something that is not a terminal (a file, a pipe).
Inodes == {"ttyA", "ttyB", "file"}
TtyInodes == {"ttyA", "ttyB"}

\* System calls of the resolution that the OS may fail.
Syscalls == {"fcntl", "ptsname", "fstat"}

\* env.stream[s] = [ino, rdwr]: the device/inode stream s is open on and
\* whether its descriptor is open O_RDWR; env.devtty: "ok" or the errno of
\* opening /dev/tty; env.fail: the system call that fails, or "none".
StreamStates == [ino : Inodes, rdwr : BOOLEAN]
Envs == [stream : [Streams -> StreamStates],
         devtty : {"ok", "ENXIO"},
         fail   : Syscalls \cup {"none"}]

Ok(v) == [ok |-> TRUE, val |-> v]
Err(e) == [ok |-> FALSE, err |-> e]
None == [some |-> FALSE]
Some(v) == [some |-> TRUE, val |-> v]

\* io::Error::last_os_error() / io::Error::from_raw_os_error(code): the
\* error carries the raw OS code; its kind is decoded from the code.
os_error(code) ==
    [raw  |-> code,
     kind |-> IF code = "ENOENT" THEN "NotFound"
              ELSE IF code = "EACCES" THEN "PermissionDenied"
              ELSE "Uncategorized"]

\* to_io_result(value): -1 is the error the OS has set (errno), any other
\* value is the result.
to_io_result(value, errno) ==
    IF value = -1 THEN Err(os_error(errno)) ELSE Ok(value)

\* stream.is_terminal()
is_terminal(e, s) == e.stream[s].ino \in TtyInodes

\* fcntl(fd, F_GETFL): the access mode of the descriptor (O_RDONLY is 0,
\* O_RDWR is 2), or -1.
fcntl(e, s) ==
    IF e.fail = "fcntl" THEN -1 ELSE IF e.stream[s].rdwr THEN 2 ELSE 0

\* Mutant of is_read_write: the access mode is not masked; every descriptor
\* whose flags can be read counts as open read-write.
is_read_write_unmasked(e, s) ==
    LET flags == to_io_result(fcntl(e, s), "EBADF") IN
    IF ~flags.ok THEN Err(flags.err) ELSE Ok(TRUE)

\* is_read_write(fd): mode & O_RDWR == O_RDWR
is_read_write(e, s) ==
    LET flags == to_io_result(fcntl(e, s), "EBADF") IN
    IF ~flags.ok THEN Err(flags.err) ELSE Ok(flags.val = 2)

\* libc::fstat(fd, &mut stat) through to_io_result: the device and inode
\* of the descriptor, or the error.
fstat(e, ino) ==
    LET r == to_io_result(IF e.fail = "fstat" THEN -1 ELSE 0, "EBADF") IN
    IF ~r.ok THEN Err(r.err) ELSE Ok(ino)

\* ptsname_r(fd), then open(name, read + write): a new descriptor on the
\* device of stream s.
reopen_tty(e, s) ==
    IF e.fail = "ptsname" THEN Err(os_error("ENOTTY"))
    ELSE Ok([fd |-> "new", ino |-> e.stream[s].ino])

\* TerminalFile::Owned(File) / TerminalFile::Borrowed(ManuallyDrop<File>)
Owned(f) == [tag |-> "Owned", fd |-> f.fd, ino |-> f.ino]
Borrowed(f) == [tag |-> "Borrowed", fd |-> f.fd, ino |-> f.ino]

\* reuse_tty_from_stdio(stream): io::Result<Option<TerminalFile>>; the
\* field from records the stream the file was taken from.
reuse_tty_from_stdio(e, s) ==
    IF is_terminal(e, s)
    THEN LET rw == is_read_write(e, s) IN
         IF ~rw.ok THEN Err(rw.err)
         ELSE IF rw.val
              THEN Ok(Some([file |-> Borrowed([fd |-> s, ino |-> e.stream[s].ino]),
                            from |-> s]))
              ELSE LET f == reopen_tty(e, s) IN
                   IF f.ok THEN Ok(Some([file |-> Owned(f.val), from |-> s]))
                   ELSE Err(f.err)
    ELSE Ok(None)

\* OpenOptions::new().read(true).write(true).open("/dev/tty")
open_controlling_tty(e) ==
    IF e.devtty = "ok"
    THEN Ok([file |-> Owned([fd |-> "new", ino |-> "devtty"]), from |-> "/dev/tty"])
    ELSE Err(os_error(e.devtty))

\* is_same_file(a, b): same descriptor number, or same device and inode.
is_same_file(e, file, s) ==
    IF file.fd = s THEN Ok(TRUE)
    ELSE LET stat_a == fstat(e, file.ino)
             stat_b == fstat(e, e.stream[s].ino)
         IN IF ~stat_a.ok THEN Err(stat_a.err)
            ELSE IF ~stat_b.ok THEN Err(stat_b.err)
            ELSE Ok(stat_a.val = stat_b.val)

\* Terminal::from_stdio(file)
from_stdio(e, c) ==
    LET a == is_same_file(e, c.file, "stdin")
        b == is_same_file(e, c.file, "stdout")
        d == is_same_file(e, c.file, "stderr")
    IN IF ~a.ok THEN Err(a.err)
       ELSE IF ~b.ok THEN Err(b.err)
       ELSE IF ~d.ok THEN Err(d.err)
       ELSE Ok([file |-> c.file, from |-> c.from,
                same_as_stdin |-> a.val,
                same_as_stdout |-> b.val,
                same_as_stderr |-> d.val])

\* Mutant of from_controlling: the handle is flagged as an alias of the
\* three standard streams.
from_controlling_aliased(c) ==
    [file |-> c.file, from |-> c.from,
     same_as_stdin |-> TRUE, same_as_stdout |-> TRUE, same_as_stderr |-> TRUE]

\* Terminal::from_controlling(file)
from_controlling(c) ==
    [file |-> c.file, from |-> c.from,
     same_as_stdin |-> FALSE, same_as_stdout |-> FALSE, same_as_stderr |-> FALSE]

\* The order in which unix::terminal() tests the standard streams.
StdioOrder == <<"stderr", "stdout", "stdin">>

\* Mutant of first_candidate: a stream whose handling fails is passed over
\* like one that is not a terminal.
RECURSIVE first_candidate_skips_errors(_, _)
first_candidate_skips_errors(e, i) ==
    IF i > Len(StdioOrder) THEN None
    ELSE LET r == reuse_tty_from_stdio(e, StdioOrder[i]) IN
         IF r.ok /\ r.val.some THEN Some(Ok(r.val.val))
         ELSE first_candidate_skips_errors(e, i + 1)

\* The chain None.or_else(..).or_else(..).or_else(..) over StdioOrder from
\* position i: the first stream whose closure yields Some (a file or an
\* error); later closures are not run.
RECURSIVE first_candidate(_, _)
first_candidate(e, i) ==
    IF i > Len(StdioOrder) THEN None
    ELSE LET r == reuse_tty_from_stdio(e, StdioOrder[i]) IN
         IF r.ok /\ ~r.val.some THEN first_candidate(e, i + 1)
         ELSE Some(IF r.ok THEN Ok(r.val.val) ELSE Err(r.err))

\* The streams the chain tests from position i on: or_else runs its closure
\* only while the value so far is None, so the stream at a position is
\* tested when every closure before it returned Ok(None).
RECURSIVE streams_tested(_, _)
streams_tested(e, i) ==
    IF i > Len(StdioOrder) THEN {}
    ELSE LET r == reuse_tty_from_stdio(e, StdioOrder[i]) IN
         {StdioOrder[i]} \cup
            (IF r.ok /\ ~r.val.some THEN streams_tested(e, i + 1) ELSE {})

\* unwrap_or_else(|| Ok(Terminal::from_controlling(open_controlling_tty()?))):
\* the closure that opens /dev/tty runs only when the chain yielded None.
opens_controlling_tty(e) == ~first_candidate(e, 1).some

\* unix::terminal()
terminal(e) ==
    LET c == first_candidate(e, 1) IN
    IF c.some
    THEN IF c.val.ok THEN from_stdio(e, c.val.val) ELSE Err(c.val.err)
    ELSE LET f == open_controlling_tty(e) IN
         IF f.ok THEN Ok(from_controlling(f.val)) ELSE Err(f.err)

(***************************************************************************)
(* lib.rs terminal(): every call runs the platform resolution.             *)
(***************************************************************************)
NoTerminal == [file |-> [tag |-> "none", fd |-> "none", ino |-> "none"],
               from |-> "none",
               same_as_stdin |-> FALSE, same_as_stdout |-> FALSE,
               same_as_stderr |-> FALSE]

\* The TerminalFile the resolution of unix::terminal() has in hand before
\* Terminal::from_stdio / from_controlling is reached, if it got that far.
candidate_file(e) ==
    LET c == first_candidate(e, 1) IN
    IF c.some
    THEN IF c.val.ok THEN Some(c.val.val.file) ELSE None
    ELSE LET f == open_controlling_tty(e) IN
         IF f.ok THEN Some(f.val.file) ELSE None

\* Mutant of TerminalFile_drop: a borrowed file is closed like an owned one.
TerminalFile_drop_closes_borrowed(f, i, c) ==
    IF f.tag = "Owned" THEN [c EXCEPT !.own[i] = @ + 1]
    ELSE [c EXCEPT !.std[f.fd] = @ + 1]

\* Drop of a TerminalFile, the file of the i-th call, c being the closes so
\* far: Owned(File) closes its descriptor, Borrowed(ManuallyDrop<File>)
\* does not run the drop of the File.
TerminalFile_drop(f, i, c) ==
    IF f.tag = "Owned" THEN [c EXCEPT !.own[i] = @ + 1] ELSE c

\* pub fn terminal(): imp::terminal().map(Terminal). The call performs one
\* resolution attempt against the environment as it is now and records its
\* outcome together with the environment it saw, the streams it tested and
\* whether it went on to open /dev/tty. A file the resolution had
\* in hand when it failed (from_stdio returning early) is dropped by it.
CallTerminal ==
    /\ Len(calls) < MaxCalls
    /\ LET i == Len(calls) + 1
           r == terminal(env)
           f == candidate_file(env)
       IN /\ calls' = Append(calls, [env |-> env, res |-> r,
                                     tested |-> streams_tested(env, 1),
                                     fallback |-> opens_controlling_tty(env)])
          /\ live' = IF r.ok THEN live \cup {i} ELSE live
          /\ closed' = IF ~r.ok /\ f.some THEN TerminalFile_drop(f.val, i, closed)
                       ELSE closed
    /\ attempts' = attempts + 1
    /\ UNCHANGED <<env, mode, lockVars, nestVars, op, otherVars>>

\* The Terminal value the i-th call returned goes out of scope: its file
\* is dropped.
DropTerminal(i) ==
    /\ i \in live
    /\ live' = live \ {i}
    /\ closed' = TerminalFile_drop(calls[i].res.val.file, i, closed)
    /\ UNCHANGED <<env, mode, lockVars, resolveVars, nestVars, op, otherVars>>

\* The process gains or loses its controlling terminal between two calls
\* (setsid, a terminal hang-up, a new session leader opening a terminal).
EnvChange ==
    /\ Len(calls) < MaxCalls
    /\ env' = [env EXCEPT !.devtty = IF @ = "ok" THEN "ENXIO" ELSE "ok"]
    /\ UNCHANGED <<mode, lockVars, resolveVars, nestVars,
                   fileVars, op, otherVars>>

\* let mut terminal = terminal()?; in thread t: the Terminal the latest call
\* returned becomes the handle of t.
TakeHandle(t) ==
    /\ term[t] = NoTerminal
    /\ Len(calls) \in live
    /\ term' = [term EXCEPT ![t] = calls[Len(calls)].res.val]
    /\ UNCHANGED <<env, pc, mutexOwner, poisoned, stdioOwner, panicking,
                   lockResult, guard, mode, rawInfo, dpc, resolveVars, nestVars,
                   fileVars, op, otherVars>>

(***************************************************************************)
(* The lock protocol: lib.rs Terminal::lock, TerminalLock, unix lock_stdio *)
(***************************************************************************)
LockThreads == {"t1", "t2"}
DirectUser == "d"
NoThread == "none"

\* Mutant of same_as: the flags of stdout and stderr are mixed up.
same_as_swapped(h, s) ==
    IF s = "stdin" THEN h.same_as_stdin
    ELSE IF s = "stdout" THEN h.same_as_stderr
    ELSE h.same_as_stdout

\* The aliasing flag of handle h for stream s.
same_as(h, s) ==
    IF s = "stdin" THEN h.same_as_stdin
    ELSE IF s = "stdout" THEN h.same_as_stdout
    ELSE h.same_as_stderr

\* Mutant of lock_stdio: the stream locks are taken in the opposite order.
lock_stdio_reversed == <<"stderr", "stdout", "stdin">>

\* unix Terminal::lock_stdio: the StdioLocks literal evaluates its fields in
\* this order, stream s being locked only when the handle's flag is set.
lock_stdio == <<"stdin", "stdout", "stderr">>
LockPc == <<"lock_stdin", "lock_stdout", "lock_stderr">>

\* struct TerminalLock { inner, _mutex_guard, _stdio_locks, _phantom_data }
\* with struct StdioLocks { stdin_lock, stdout_lock, stderr_lock }: the
\* fields that hold a lock, in declaration order, which is the order in
\* which dropping a TerminalLock releases them.
TerminalLock == <<"_mutex_guard", "stdin", "stdout", "stderr">>
DropPc == <<"drop_1", "drop_2", "drop_3", "drop_4">>

\* A TerminalLock value exists for t: lock() has returned it and its drop
\* has not begun.
Alive(t) == pc[t] \in {"locked", "unwinding"}

NoGuard == [alive |-> FALSE]
NoRawInfo == [phase |-> "none"]

\* Terminal::lock is called on t's handle.
LockCall(t) ==
    /\ pc[t] = "idle"
    /\ pc' = [pc EXCEPT ![t] = "lock_token"]
    /\ lockResult' = [lockResult EXCEPT ![t] = "pending"]
    /\ op' = [op EXCEPT ![t] = "lock"]
    /\ UNCHANGED <<env, term, mutexOwner, poisoned, stdioOwner, panicking,
                   guard, mode, rawInfo, dpc, resolveVars, nestVars,
                   fileVars, otherVars>>

\* The operations of io::Read and io::Write.
IoOps == {"read", "write", "flush"}

\* Mutant of IoCall: the operation goes to the file without locking.
IoCall_unlocked(t, o) ==
    /\ pc[t] = "idle"
    /\ pc' = [pc EXCEPT ![t] = "io"]
    /\ lockResult' = [lockResult EXCEPT ![t] = "Ok"]
    /\ op' = [op EXCEPT ![t] = o]
    /\ UNCHANGED <<env, term, mutexOwner, poisoned, stdioOwner, panicking,
                   guard, mode, rawInfo, dpc, resolveVars, nestVars,
                   fileVars, otherVars>>

\* impl io::Read / io::Write for Terminal: read, write or flush is called
\* on t's handle; self.lock()? comes first.
IoCall(t, o) ==
    /\ pc[t] = "idle"
    /\ pc' = [pc EXCEPT ![t] = "lock_token"]
    /\ lockResult' = [lockResult EXCEPT ![t] = "pending"]
    /\ op' = [op EXCEPT ![t] = o]
    /\ UNCHANGED <<env, term, mutexOwner, poisoned, stdioOwner, panicking,
                   guard, mode, rawInfo, dpc, resolveVars, nestVars,
                   fileVars, otherVars>>

\* self.lock()?.read(buf) and the like: the operation is performed on the
\* temporary TerminalLock, which is dropped at the end of the statement.
IoOp(t) ==
    /\ pc[t] = "io"
    /\ pc' = [pc EXCEPT ![t] = DropPc[1]]
    /\ UNCHANGED <<env, term, mutexOwner, poisoned, stdioOwner, panicking,
                   lockResult, guard, mode, rawInfo, dpc, resolveVars, nestVars,
                   fileVars, op, otherVars>>

\* Mutant of lock_result: the poison is recovered from (into_inner) and
\* the lock goes on.
lock_result_recover(p) == "lock_stdin"

\* TERMINAL_LOCK.lock(): blocks until the mutex is free, takes it, and
\* yields Err(PoisonError { guard }) when the poison flag is set.
lock_result(p) == IF p THEN "lock_poisoned" ELSE LockPc[1]

\* Mutant of TERMINAL_LOCK_free: a lock() that does not wait for the holder.
TERMINAL_LOCK_always_free == TRUE

\* static TERMINAL_LOCK: Mutex<()>: lock() goes through only while no thread
\* holds the mutex.
TERMINAL_LOCK_free == mutexOwner = NoThread

AcquireToken(t) ==
    /\ pc[t] = "lock_token"
    /\ TERMINAL_LOCK_free
    /\ mutexOwner' = t
    /\ pc' = [pc EXCEPT ![t] = lock_result(poisoned)]
    /\ UNCHANGED <<env, term, poisoned, stdioOwner, panicking, lockResult,
                   guard, mode, rawInfo, dpc, resolveVars, nestVars,
                   fileVars, op, otherVars>>

\* Mutant of PoisonReturn: the guard inside the std error is kept (leaked)
\* when the error is returned, so the mutex stays locked.
PoisonReturn_keeps_guard(t) ==
    /\ pc[t] = "lock_poisoned"
    /\ lockResult' = [lockResult EXCEPT ![t] = "PoisonError"]
    /\ pc' = [pc EXCEPT ![t] = "idle"]
    /\ UNCHANGED <<env, term, mutexOwner, poisoned, stdioOwner, panicking, guard,
                   mode, rawInfo, dpc, resolveVars, nestVars,
                   fileVars, op, otherVars>>

\* .map_err(|_| PoisonError::default())?: the guard inside the std error is
\* dropped, which unlocks the mutex, and lock() returns the error.
PoisonReturn(t) ==
    /\ pc[t] = "lock_poisoned"
    /\ mutexOwner' = NoThread
    /\ lockResult' = [lockResult EXCEPT ![t] = "PoisonError"]
    /\ pc' = [pc EXCEPT ![t] = "idle"]
    /\ UNCHANGED <<env, term, poisoned, stdioOwner, panicking, guard, mode,
                   rawInfo, dpc, resolveVars, nestVars,
                   fileVars, op, otherVars>>

\* self.0.lock_stdio(), one field at a time: stream lock_stdio[i] is locked
\* (blocking until it is free) when the flag is set and skipped otherwise;
\* after the last one lock() returns Ok(TerminalLock), to the caller or to
\* the read / write / flush that called it.
LockStdio(t, i) ==
    LET s == lock_stdio[i] IN
    /\ pc[t] = LockPc[i]
    /\ IF same_as(term[t], s)
       THEN /\ stdioOwner[s] = NoThread
            /\ stdioOwner' = [stdioOwner EXCEPT ![s] = t]
       ELSE UNCHANGED stdioOwner
    /\ IF i < Len(lock_stdio)
       THEN /\ pc' = [pc EXCEPT ![t] = LockPc[i + 1]]
            /\ UNCHANGED lockResult
       ELSE /\ pc' = [pc EXCEPT ![t] = IF op[t] = "lock" THEN "locked" ELSE "io"]
            /\ lockResult' = [lockResult EXCEPT ![t] = "Ok"]
    /\ UNCHANGED <<env, term, mutexOwner, poisoned, panicking, guard, mode,
                   rawInfo, dpc, resolveVars, nestVars,
                   fileVars, op, otherVars>>

\* The holder's code panics while the TerminalLock is alive: the thread
\* unwinds, dropping its locals in reverse order of declaration.
Panic(t) ==
    /\ pc[t] = "locked"
    /\ pc' = [pc EXCEPT ![t] = "unwinding"]
    /\ panicking' = [panicking EXCEPT ![t] = TRUE]
    /\ UNCHANGED <<env, term, mutexOwner, poisoned, stdioOwner, lockResult,
                   guard, mode, rawInfo, dpc, resolveVars, nestVars,
                   fileVars, op, otherVars>>

\* Mutant of DropTerminalLock: the guard does not borrow the lock, so the
\* lock can be dropped while its RawModeGuard is alive.
DropTerminalLock_under_guard(t) ==
    /\ Alive(t)
    /\ pc' = [pc EXCEPT ![t] = DropPc[1]]
    /\ UNCHANGED <<env, term, mutexOwner, poisoned, stdioOwner, panicking,
                   lockResult, guard, mode, rawInfo, dpc, resolveVars, nestVars,
                   fileVars, op, otherVars>>

\* The TerminalLock goes out of scope (or is reached by the unwinding): its
\* drop begins. A RawModeGuard borrows the lock, so it is gone by then.
DropTerminalLock(t) ==
    /\ Alive(t)
    /\ ~guard[t].alive
    /\ pc' = [pc EXCEPT ![t] = DropPc[1]]
    /\ UNCHANGED <<env, term, mutexOwner, poisoned, stdioOwner, panicking,
                   lockResult, guard, mode, rawInfo, dpc, resolveVars, nestVars,
                   fileVars, op, otherVars>>

\* Drop of field TerminalLock[i]. Dropping the MutexGuard sets the poison
\* flag when the thread is panicking and unlocks TERMINAL_LOCK; dropping a
\* stream lock that is Some unlocks the stream. After the last field the
\* thread goes on, or is gone when it was unwinding.
DropField(t, i) ==
    LET f == TerminalLock[i] IN
    /\ pc[t] = DropPc[i]
    /\ IF f = "_mutex_guard"
       THEN /\ mutexOwner' = NoThread
            /\ poisoned' = (poisoned \/ panicking[t])
            /\ UNCHANGED stdioOwner
       ELSE /\ stdioOwner' = [stdioOwner EXCEPT
                                 ![f] = IF @ = t THEN NoThread ELSE @]
            /\ UNCHANGED <<mutexOwner, poisoned>>
    /\ pc' = [pc EXCEPT ![t] = IF i < Len(TerminalLock) THEN DropPc[i + 1]
                                ELSE IF panicking[t] THEN "dead" ELSE "idle"]
    /\ UNCHANGED <<env, term, panicking, lockResult, guard, mode, rawInfo,
                   dpc, resolveVars, nestVars,
                   fileVars, op, otherVars>>

\* Other code of the process locks one standard stream directly
\* (io::stderr().lock() and the like) and never takes TERMINAL_LOCK.
DirectLock(s) ==
    /\ dpc = "idle"
    /\ stdioOwner[s] = NoThread
    /\ stdioOwner' = [stdioOwner EXCEPT ![s] = DirectUser]
    /\ dpc' = s
    /\ UNCHANGED <<env, term, pc, mutexOwner, poisoned, panicking, lockResult,
                   guard, mode, rawInfo, resolveVars, nestVars,
                   fileVars, op, otherVars>>

DirectUnlock ==
    /\ dpc \in Streams
    /\ stdioOwner' = [stdioOwner EXCEPT ![dpc] = NoThread]
    /\ dpc' = "idle"
    /\ UNCHANGED <<env, term, pc, mutexOwner, poisoned, panicking, lockResult,
                   guard, mode, rawInfo, resolveVars, nestVars,
                   fileVars, op, otherVars>>

\* A thread outside the crate that locks several standard streams and
\* holds them together (let a = stderr().lock(); let b = stdin().lock();):
\* it calls lock() on stream s ...
DirectWant(s) ==
    /\ dwant = "none"
    /\ \A i \in 1..Len(dheld) : dheld[i] # s
    /\ dwant' = s
    /\ UNCHANGED <<dheld, env, mode, lockVars, resolveVars, nestVars, fileVars,
                   op, winVars, errVars, histVars>>

\* ... the call returns once the lock of the stream is free ...
DirectGet ==
    /\ dwant \in Streams
    /\ stdioOwner[dwant] = NoThread
    /\ stdioOwner' = [stdioOwner EXCEPT ![dwant] = DirectUser]
    /\ dheld' = Append(dheld, dwant)
    /\ dwant' = "none"
    /\ UNCHANGED <<env, term, pc, mutexOwner, poisoned, panicking, lockResult,
                   guard, mode, rawInfo, dpc, resolveVars, nestVars, fileVars,
                   op, winVars, errVars, histVars>>

\* ... and the guards are dropped in the reverse order, the last one first.
DirectRelease ==
    /\ dwant = "none"
    /\ dheld # <<>>
    /\ stdioOwner' = [stdioOwner EXCEPT ![dheld[Len(dheld)]] = NoThread]
    /\ dheld' = SubSeq(dheld, 1, Len(dheld) - 1)
    /\ UNCHANGED <<dwant, env, term, pc, mutexOwner, poisoned, panicking,
                   lockResult, guard, mode, rawInfo, dpc, resolveVars, nestVars,
                   fileVars, op, winVars, errVars, histVars>>

(***************************************************************************)
(* Raw mode: unix Terminal::enable_raw_mode and Drop for RawModeGuard.     *)
(* A terminal mode is the set of the local flags that are switched on.     *)
(***************************************************************************)
Flags == {"ECHO", "ICANON", "ISIG"}
Modes == SUBSET Flags

\* The flags raw mode switches off: canonical processing and echo.
RawFlags == {"ECHO", "ICANON"}

\* attr::is_raw_mode_enabled(&termios)
is_raw_mode_enabled(m) == m \cap RawFlags = {}

\* attr::enable_raw_mode(&mut termios)
attr_enable_raw_mode(m) == m \ RawFlags

\* attr::get_terminal_attr(fd): the mode the OS holds, or an error.
get_terminal_attr(m, ok) == IF ok THEN Ok(m) ELSE Err(os_error("EIO"))

\* attr::set_terminal_attr(fd, &termios): the OS takes the mode, or fails
\* and keeps the one it has.
set_terminal_attr(m, new, ok) ==
    IF ok THEN [res |-> Ok(TRUE), mode |-> new]
    ELSE [res |-> Err(os_error("EIO")), mode |-> m]

\* Mutant of enable_raw_mode: no test for raw mode being active already;
\* the mode read is always stored and the raw variant always written.
enable_raw_mode_unconditional(m, okGet, okSet) ==
    LET old_termios == get_terminal_attr(m, okGet) IN
    IF ~old_termios.ok
    THEN [res |-> Err(old_termios.err), mode |-> m, writes |-> 0]
    ELSE LET w == set_terminal_attr(m, attr_enable_raw_mode(old_termios.val), okSet)
         IN IF w.res.ok
            THEN [res |-> Ok([alive |-> TRUE,
                              old_termios |-> Some(old_termios.val)]),
                  mode |-> w.mode, writes |-> 1]
            ELSE [res |-> Err(w.res.err), mode |-> w.mode, writes |-> 1]

\* Mutant of enable_raw_mode: the guard stores the raw variant it wrote
\* instead of the mode it found.
enable_raw_mode_stores_new(m, okGet, okSet) ==
    LET old_termios == get_terminal_attr(m, okGet) IN
    IF ~old_termios.ok
    THEN [res |-> Err(old_termios.err), mode |-> m, writes |-> 0]
    ELSE IF ~is_raw_mode_enabled(old_termios.val)
         THEN LET termios == attr_enable_raw_mode(old_termios.val)
                  w == set_terminal_attr(m, termios, okSet)
              IN IF w.res.ok
                 THEN [res |-> Ok([alive |-> TRUE, old_termios |-> Some(termios)]),
                       mode |-> w.mode, writes |-> 1]
                 ELSE [res |-> Err(w.res.err), mode |-> w.mode, writes |-> 1]
         ELSE [res |-> Ok([alive |-> TRUE, old_termios |-> None]),
               mode |-> m, writes |-> 0]

\* unix Terminal::enable_raw_mode on a device in mode m, okGet / okSet being
\* whether the OS serves the two calls: the result (a guard holding
\* old_termios, or the error), the mode the device is left in, and the
\* number of mode writes issued.
enable_raw_mode(m, okGet, okSet) ==
    LET old_termios == get_terminal_attr(m, okGet) IN
    IF ~old_termios.ok
    THEN [res |-> Err(old_termios.err), mode |-> m, writes |-> 0]
    ELSE IF ~is_raw_mode_enabled(old_termios.val)
         THEN LET termios == attr_enable_raw_mode(old_termios.val)
                  w == set_terminal_attr(m, termios, okSet)
              IN IF w.res.ok
                 THEN [res |-> Ok([alive |-> TRUE,
                                   old_termios |-> Some(old_termios.val)]),
                       mode |-> w.mode, writes |-> 1]
                 ELSE [res |-> Err(w.res.err), mode |-> w.mode, writes |-> 1]
         ELSE [res |-> Ok([alive |-> TRUE, old_termios |-> None]),
               mode |-> m, writes |-> 0]

\* Mutant of RawModeGuard_drop: the guard is released without a restore.
RawModeGuard_drop_forgets(g, m, ok) ==
    [mode |-> m, writes |-> 0, panics |-> FALSE]

\* Mutant of RawModeGuard_drop: a guard that stored nothing writes the
\* cooked mode back.
RawModeGuard_drop_cooked(g, m, ok) ==
    [mode |-> set_terminal_attr(m, IF g.old_termios.some THEN g.old_termios.val
                                   ELSE Flags, ok).mode,
     writes |-> 1, panics |-> FALSE]

\* Mutant of RawModeGuard_drop: the result of the restoring write is
\* unwrapped instead of discarded.
RawModeGuard_drop_unwrap(g, m, ok) ==
    IF g.old_termios.some
    THEN [mode |-> set_terminal_attr(m, g.old_termios.val, ok).mode, writes |-> 1,
          panics |-> ~set_terminal_attr(m, g.old_termios.val, ok).res.ok]
    ELSE [mode |-> m, writes |-> 0, panics |-> FALSE]

\* Drop for RawModeGuard: if let Some(old) = old_termios, write it back and
\* discard the result of the write (_ = ...): the mode the device is left
\* in, the number of mode writes issued, and whether the drop panics.
RawModeGuard_drop(g, m, ok) ==
    IF g.old_termios.some
    THEN [mode |-> set_terminal_attr(m, g.old_termios.val, ok).mode, writes |-> 1,
          panics |-> FALSE]
    ELSE [mode |-> m, writes |-> 0, panics |-> FALSE]

\* TerminalLock::enable_raw_mode by the holder t of a TerminalLock.
EnableRawMode(t) ==
    /\ pc[t] = "locked"
    /\ ~guard[t].alive
    /\ \E okGet \in BOOLEAN, okSet \in BOOLEAN :
          LET r == enable_raw_mode(mode, okGet, okSet) IN
          /\ mode' = r.mode
          /\ guard' = [guard EXCEPT ![t] = IF r.res.ok THEN r.res.val ELSE NoGuard]
          /\ rawInfo' = [rawInfo EXCEPT ![t] =
                 [phase |-> IF r.res.ok THEN "active" ELSE "failed",
                  pre |-> mode, applied |-> r.mode, writes |-> r.writes,
                  stored |-> IF r.res.ok THEN r.res.val.old_termios ELSE None,
                  restores |-> 0, restoreOk |-> FALSE, after |-> r.mode,
                  unwound |-> FALSE]]
          /\ firstMode' = IF r.res.ok /\ ~firstMode.some THEN Some(mode)
                          ELSE firstMode
    /\ UNCHANGED <<env, term, pc, mutexOwner, poisoned, stdioOwner, panicking,
                   lockResult, dpc, resolveVars, nestVars,
                   fileVars, op, directVars, winVars, errVars, restoreFailed>>

\* The RawModeGuard of t is released: at the end of its scope, or by the
\* unwinding of a panic. A drop that panicked would start the unwinding of
\* t.
DropRawModeGuard(t) ==
    /\ Alive(t)
    /\ guard[t].alive
    /\ \E ok \in BOOLEAN :
          LET r == RawModeGuard_drop(guard[t], mode, ok) IN
          /\ mode' = r.mode
          /\ rawInfo' = [rawInfo EXCEPT ![t] =
                 [@ EXCEPT !.phase = "released",
                           !.restores = @ + r.writes,
                           !.restoreOk = (r.writes > 0 /\ ok),
                           !.after = r.mode,
                           !.unwound = panicking[t]]]
          /\ panicking' = [panicking EXCEPT ![t] = @ \/ r.panics]
          /\ pc' = [pc EXCEPT ![t] = IF r.panics THEN "unwinding" ELSE @]
          /\ restoreFailed' = (restoreFailed \/ (r.writes > 0 /\ ~ok))
    /\ guard' = [guard EXCEPT ![t] = NoGuard]
    /\ UNCHANGED <<env, term, mutexOwner, poisoned, stdioOwner,
                   lockResult, dpc, resolveVars, nestVars,
                   fileVars, op, directVars, winVars, errVars, firstMode>>

(***************************************************************************)
(* Nested guards. A RawModeGuard borrows its TerminalLock mutably and the  *)
(* token is not reentrant, so one process holds at most one guard at a     *)
(* time; guards nest when lock holders of several processes attached to    *)
(* the same terminal device activate raw mode inside one another's scope.  *)
(* guards is the stack of the live guards, the innermost last.             *)
(***************************************************************************)
NoNest == [op |-> "none"]

NestedEnable ==
    /\ Len(guards) < MaxDepth
    /\ \E okGet \in BOOLEAN, okSet \in BOOLEAN :
          LET r == enable_raw_mode(mode, okGet, okSet) IN
          /\ mode' = r.mode
          /\ guards' = IF r.res.ok THEN Append(guards, r.res.val) ELSE guards
          /\ nest' = [op |-> IF r.res.ok THEN "enable" ELSE "failed",
                      orig |-> IF guards = <<>> THEN mode ELSE nest.orig,
                      before |-> mode, writes |-> r.writes, ok |-> r.res.ok,
                      inner |-> IF guards = <<>> THEN 0 ELSE nest.inner]
    /\ UNCHANGED <<env, lockVars, resolveVars,
                   fileVars, op, otherVars>>

NestedRelease ==
    /\ guards # <<>>
    /\ \E ok \in BOOLEAN :
          LET g == guards[Len(guards)]
              r == RawModeGuard_drop(g, mode, ok)
          IN /\ mode' = r.mode
             /\ nest' = [op |-> "release", orig |-> nest.orig, before |-> mode,
                         writes |-> r.writes, ok |-> (r.writes = 0 \/ ok),
                         inner |-> IF Len(guards) > 1 /\ nest.inner < MaxDepth
                                   THEN nest.inner + 1 ELSE nest.inner]
    /\ guards' = SubSeq(guards, 1, Len(guards) - 1)
    /\ UNCHANGED <<env, lockVars, resolveVars,
                   fileVars, op, otherVars>>

(***************************************************************************)
(* Windows: windows.rs terminal(), Terminal::enable_raw_mode and the guard, *)
(* windows/console_mode.rs. A console mode is the set of the mode flags    *)
(* that are set.                                                           *)
(***************************************************************************)
\* What a standard handle is: a console, a pipe of an MSYS/Cygwin terminal
\* (which is_terminal() takes for a terminal), or something else.
HandleKinds == {"console", "msys", "file"}
WinEnvs == [std : [Streams -> HandleKinds],
            conin : {"ok", "ERROR_ACCESS_DENIED"},
            conout : {"ok", "ERROR_ACCESS_DENIED"}]

ConsoleFlags == {"ENABLE_ECHO_INPUT", "ENABLE_LINE_INPUT", "ENABLE_PROCESSED_INPUT"}
ConsoleModes == SUBSET ConsoleFlags

\* const FLAGS_DISABLED_IN_RAW_MODE = ENABLE_ECHO_INPUT | ENABLE_LINE_INPUT
FLAGS_DISABLED_IN_RAW_MODE == {"ENABLE_ECHO_INPUT", "ENABLE_LINE_INPUT"}

\* console_mode::is_raw_mode_enabled: mode & FLAGS_DISABLED_IN_RAW_MODE == 0
console_is_raw_mode_enabled(m) == m \cap FLAGS_DISABLED_IN_RAW_MODE = {}

\* console_mode::enable_raw_mode: mode & !(FLAGS_DISABLED_IN_RAW_MODE)
console_enable_raw_mode(m) == m \ FLAGS_DISABLED_IN_RAW_MODE

\* console_mode::get_console_mode / set_console_mode through
\* windows::to_io_result: a zero result is the last OS error.
get_console_mode(m, ok) ==
    IF ok THEN Ok(m) ELSE Err(os_error("ERROR_INVALID_HANDLE"))

set_console_mode(m, new, ok) ==
    IF ok THEN [res |-> Ok(TRUE), mode |-> new]
    ELSE [res |-> Err(os_error("ERROR_INVALID_HANDLE")), mode |-> m]

\* ConsoleBuffer::try_borrow(handle): Some(Borrowed) when the handle is a
\* terminal.
try_borrow(e, s) ==
    IF e.std[s] # "file"
    THEN Some([tag |-> "Borrowed", handle |-> s, kind |-> e.std[s]])
    ELSE None

\* fn conin(): standard input, else CONIN$ opened for reading.
conin(e) ==
    LET b == try_borrow(e, "stdin") IN
    IF b.some THEN Ok(b.val)
    ELSE IF e.conin = "ok"
         THEN Ok([tag |-> "Owned", handle |-> "CONIN$", kind |-> "console"])
         ELSE Err(os_error(e.conin))

\* Mutant of conout: standard output is tested before standard error.
conout_stdout_first(e) ==
    LET a == try_borrow(e, "stdout")
        b == IF a.some THEN a ELSE try_borrow(e, "stderr")
    IN IF b.some THEN Ok(b.val)
       ELSE IF e.conout = "ok"
            THEN Ok([tag |-> "Owned", handle |-> "CONOUT$", kind |-> "console"])
            ELSE Err(os_error(e.conout))

\* fn conout(): standard error, else standard output, else CONOUT$ opened
\* for writing.
conout(e) ==
    LET a == try_borrow(e, "stderr")
        b == IF a.some THEN a ELSE try_borrow(e, "stdout")
    IN IF b.some THEN Ok(b.val)
       ELSE IF e.conout = "ok"
            THEN Ok([tag |-> "Owned", handle |-> "CONOUT$", kind |-> "console"])
            ELSE Err(os_error(e.conout))

\* windows::terminal(): Ok(Terminal { conin: conin()?, conout: conout()? })
win_terminal(e) ==
    LET i == conin(e) IN
    IF ~i.ok THEN Err(i.err)
    ELSE LET o == conout(e) IN
         IF ~o.ok THEN Err(o.err)
         ELSE Ok([conin |-> i.val, conout |-> o.val])

\* msys::msys_tty_on(handle): the handle is a pipe of an MSYS/Cygwin
\* terminal.
msys_tty_on(h) == h.kind = "msys"

\* fn set_raw_mode_if_necessary(handle): the mode to restore (or None), the
\* mode the console is left in and the mode reads and writes issued.
set_raw_mode_if_necessary(m, okGet, okSet) ==
    LET cur == get_console_mode(m, okGet) IN
    IF ~cur.ok THEN [res |-> Err(cur.err), mode |-> m, reads |-> 1, writes |-> 0]
    ELSE IF console_is_raw_mode_enabled(cur.val)
         THEN [res |-> Ok(None), mode |-> m, reads |-> 1, writes |-> 0]
         ELSE LET w == set_console_mode(m, console_enable_raw_mode(cur.val), okSet)
              IN IF w.res.ok
                 THEN [res |-> Ok(Some(cur.val)), mode |-> w.mode,
                       reads |-> 1, writes |-> 1]
                 ELSE [res |-> Err(w.res.err), mode |-> w.mode,
                       reads |-> 1, writes |-> 1]

\* Mutant of win_enable_raw_mode: the test for an MSYS/Cygwin terminal is
\* missing.
win_enable_raw_mode_no_msys_test(t, m, okGet, okSet) ==
    LET r == set_raw_mode_if_necessary(m, okGet, okSet) IN
    IF r.res.ok
    THEN [res |-> Ok([alive |-> TRUE, old_mode |-> r.res.val]),
          mode |-> r.mode, reads |-> r.reads, writes |-> r.writes]
    ELSE [res |-> Err(r.res.err), mode |-> r.mode,
          reads |-> r.reads, writes |-> r.writes]

\* windows Terminal::enable_raw_mode on terminal t, the console of its
\* input buffer being in mode m.
win_enable_raw_mode(t, m, okGet, okSet) ==
    IF msys_tty_on(t.conin)
    THEN [res |-> Err([raw |-> "none", kind |-> "Unsupported"]),
          mode |-> m, reads |-> 0, writes |-> 0]
    ELSE LET r == set_raw_mode_if_necessary(m, okGet, okSet) IN
         IF r.res.ok
         THEN [res |-> Ok([alive |-> TRUE, old_mode |-> r.res.val]),
               mode |-> r.mode, reads |-> r.reads, writes |-> r.writes]
         ELSE [res |-> Err(r.res.err), mode |-> r.mode,
               reads |-> r.reads, writes |-> r.writes]

\* windows Drop for RawModeGuard: if let Some(old_mode), write it back and
\* discard the result.
win_RawModeGuard_drop(g, m, ok) ==
    IF g.old_mode.some
    THEN [mode |-> set_console_mode(m, g.old_mode.val, ok).mode, writes |-> 1]
    ELSE [mode |-> m, writes |-> 0]

NoWinLog == [op |-> "none"]

\* terminal() is called on Windows.
WinTerminal ==
    /\ ~wterm.some
    /\ wterm' = Some(win_terminal(wenv))
    /\ UNCHANGED <<wenv, wmode, wguard, wlog>>
    /\ UNCHANGED <<env, mode, lockVars, resolveVars, nestVars, fileVars, op,
                   directVars, errVars, histVars>>

\* enable_raw_mode is called on the lock of the resolved terminal.
WinEnableRawMode ==
    /\ wterm.some /\ wterm.val.ok
    /\ ~wguard.alive
    /\ \E okGet \in BOOLEAN, okSet \in BOOLEAN :
          LET r == win_enable_raw_mode(wterm.val.val, wmode, okGet, okSet) IN
          /\ wmode' = r.mode
          /\ wguard' = IF r.res.ok THEN r.res.val ELSE NoGuard
          /\ wlog' = [op |-> "enable", pre |-> wmode, ok |-> r.res.ok,
                      kind |-> IF r.res.ok THEN "none" ELSE r.res.err.kind,
                      reads |-> r.reads, writes |-> r.writes]
    /\ UNCHANGED <<wenv, wterm>>
    /\ UNCHANGED <<env, mode, lockVars, resolveVars, nestVars, fileVars, op,
                   directVars, errVars, histVars>>

\* The guard is released.
WinDropRawModeGuard ==
    /\ wguard.alive
    /\ \E ok \in BOOLEAN :
          LET r == win_RawModeGuard_drop(wguard, wmode, ok) IN
          /\ wmode' = r.mode
          /\ wlog' = [op |-> "drop", pre |-> wmode, ok |-> ok,
                      kind |-> "none", reads |-> 0, writes |-> r.writes]
    /\ wguard' = NoGuard
    /\ UNCHANGED <<wenv, wterm>>
    /\ UNCHANGED <<env, mode, lockVars, resolveVars, nestVars, fileVars, op,
                   directVars, errVars, histVars>>

(***************************************************************************)
(* io_error.rs: shared_io_error, rebuilding an io::Error kept in an Arc.   *)
(***************************************************************************)
ErrorCodes == {"ENOENT", "EACCES", "ENXIO", "EIO", "ENOTTY", "EBADF"}
ErrorKinds == {"NotFound", "PermissionDenied", "Uncategorized", "Other",
               "Unsupported", "InvalidInput"}
Payloads == {"PoisonError", "MsysUnsupportedError"}

\* The representations of an io::Error: an OS error code, a bare kind, or a
\* kind with a boxed cause.
IoErrors ==
    [repr : {"Os"}, code : ErrorCodes]
      \cup [repr : {"Simple"}, kind : ErrorKinds]
      \cup [repr : {"Custom"}, kind : ErrorKinds, payload : Payloads]

\* io::Error::raw_os_error
raw_os_error(e) == IF e.repr = "Os" THEN Some(e.code) ELSE None

\* io::Error::kind: decoded from the code for an OS error
error_kind(e) == IF e.repr = "Os" THEN os_error(e.code).kind ELSE e.kind

\* io::Error::from_raw_os_error
from_raw_os_error(code) == [repr |-> "Os", code |-> code]

\* Mutant of shared_io_error: an error without an OS code is wrapped as
\* ErrorKind::Other.
shared_io_error_other(e) ==
    LET r == raw_os_error(e) IN
    IF r.some THEN from_raw_os_error(r.val)
    ELSE [repr |-> "Custom", kind |-> "Other",
          payload |-> [tag |-> "SharedIoError", cause |-> e]]

\* shared_io_error(e: &Arc<io::Error>): a raw OS error is rebuilt from its
\* code, any other error becomes a new error of the same kind around
\* SharedIoError(e.clone()), a reference to the very error stored.
shared_io_error(e) ==
    LET r == raw_os_error(e) IN
    IF r.some THEN from_raw_os_error(r.val)
    ELSE [repr |-> "Custom", kind |-> error_kind(e),
          payload |-> [tag |-> "SharedIoError", cause |-> e]]

\* shared_io_error is called once more on the stored error.
ShareError ==
    /\ Len(clones) < MaxClones
    /\ clones' = Append(clones, shared_io_error(stored))
    /\ UNCHANGED <<stored, env, mode, lockVars, resolveVars, nestVars, fileVars,
                   op, directVars, winVars, histVars>>

(***************************************************************************)
(* Specifications                                                          *)
(***************************************************************************)
\* The mode of a terminal nobody has touched: everything switched on.
Cooked == Flags

DefaultEnv == [stream |-> [s \in Streams |-> [ino |-> "ttyA", rdwr |-> TRUE]],
               devtty |-> "ok", fail |-> "none"]

\* Environments of the lock protocol: every stream open read-write, on the
\* terminal or on a file, which yields every combination of aliasing flags.
LockEnvs == {e \in Envs : /\ e.devtty = "ok"
                          /\ e.fail = "none"
                          /\ \A s \in Streams : /\ e.stream[s].rdwr
                                                /\ e.stream[s].ino # "ttyB"}

InitLock ==
    /\ pc = [t \in LockThreads |-> "idle"]
    /\ mutexOwner = NoThread
    /\ poisoned = FALSE
    /\ stdioOwner = [s \in Streams |-> NoThread]
    /\ panicking = [t \in LockThreads |-> FALSE]
    /\ lockResult = [t \in LockThreads |-> "none"]
    /\ guard = [t \in LockThreads |-> NoGuard]
    /\ rawInfo = [t \in LockThreads |-> NoRawInfo]
    /\ dpc = "idle"

InitResolve ==
    /\ calls = <<>>
    /\ attempts = 0

InitNest ==
    /\ guards = <<>>
    /\ nest = NoNest

InitFiles ==
    /\ live = {}
    /\ closed = [std |-> [s \in Streams |-> 0], own |-> [i \in 1..MaxCalls |-> 0]]

InitIo == op = [t \in LockThreads |-> "lock"]

InitDirect ==
    /\ dheld = <<>>
    /\ dwant = "none"

InitWin ==
    /\ wenv = "none"
    /\ wterm = "none"
    /\ wmode = "none"
    /\ wguard = "none"
    /\ wlog = "none"

InitErr ==
    /\ stored = "none"
    /\ clones = <<>>

\* What the specification at hand does not use, in its initial state.
InitHist ==
    /\ firstMode = None
    /\ restoreFailed = FALSE

InitOther == InitDirect /\ InitWin /\ InitErr /\ InitHist

\* Every thread has resolved its handle with terminal().
Init ==
    /\ env \in LockEnvs
    /\ term = [t \in LockThreads |-> terminal(env).val]
    /\ mode \in Modes
    /\ InitLock
    /\ InitResolve
    /\ InitNest
    /\ InitFiles
    /\ InitIo
    /\ InitOther

Next ==
    \/ \E t \in LockThreads : LockCall(t)
    \/ \E t \in LockThreads : AcquireToken(t)
    \/ \E t \in LockThreads : PoisonReturn(t)
    \/ \E t \in LockThreads : \E i \in 1..Len(lock_stdio) : LockStdio(t, i)
    \/ \E t \in LockThreads : Panic(t)
    \/ \E t \in LockThreads : DropTerminalLock(t)
    \/ \E t \in LockThreads : \E i \in 1..Len(TerminalLock) : DropField(t, i)
    \/ \E t \in LockThreads : EnableRawMode(t)
    \/ \E t \in LockThreads : DropRawModeGuard(t)
    \/ \E s \in Streams : DirectLock(s)
    \/ DirectUnlock

Spec == Init /\ [][Next]_vars

InitR ==
    /\ env \in Envs
    /\ term = [t \in LockThreads |-> NoTerminal]
    /\ mode = Cooked
    /\ InitLock
    /\ InitResolve
    /\ InitNest
    /\ InitFiles
    /\ InitIo
    /\ InitOther

NextResolve ==
    \/ CallTerminal
    \/ EnvChange
    \/ \E i \in 1..MaxCalls : DropTerminal(i)

SpecResolve == InitR /\ [][NextResolve]_vars

InitN ==
    /\ env = DefaultEnv
    /\ term = [t \in LockThreads |-> NoTerminal]
    /\ mode \in Modes
    /\ InitLock
    /\ InitResolve
    /\ InitNest
    /\ InitFiles
    /\ InitIo
    /\ InitOther

NextNested == NestedEnable \/ NestedRelease

SpecNested == InitN /\ [][NextNested]_vars

\* Reads, writes and flushes on the handle of one thread against locks,
\* panics and direct stream users of the others.
InitIO ==
    /\ env \in LockEnvs
    /\ term = [t \in LockThreads |-> terminal(env).val]
    /\ mode = Cooked
    /\ InitLock
    /\ InitResolve
    /\ InitNest
    /\ InitFiles
    /\ InitIo
    /\ InitOther

NextIo ==
    \/ \E t \in LockThreads : LockCall(t)
    \/ \E t \in LockThreads : \E o \in IoOps : IoCall(t, o)
    \/ \E t \in LockThreads : AcquireToken(t)
    \/ \E t \in LockThreads : PoisonReturn(t)
    \/ \E t \in LockThreads : \E i \in 1..Len(lock_stdio) : LockStdio(t, i)
    \/ \E t \in LockThreads : IoOp(t)
    \/ \E t \in LockThreads : Panic(t)
    \/ \E t \in LockThreads : DropTerminalLock(t)
    \/ \E t \in LockThreads : \E i \in 1..Len(TerminalLock) : DropField(t, i)
    \/ \E s \in Streams : DirectLock(s)
    \/ DirectUnlock

SpecIo == InitIO /\ [][NextIo]_vars

\* The lock protocol against a thread that locks several standard streams
\* directly, in any order.
NextDeadlock ==
    \/ \E t \in LockThreads : LockCall(t)
    \/ \E t \in LockThreads : AcquireToken(t)
    \/ \E t \in LockThreads : \E i \in 1..Len(lock_stdio) : LockStdio(t, i)
    \/ \E t \in LockThreads : DropTerminalLock(t)
    \/ \E t \in LockThreads : \E i \in 1..Len(TerminalLock) : DropField(t, i)
    \/ \E s \in Streams : DirectWant(s)
    \/ DirectGet
    \/ DirectRelease

\* Every holder eventually releases (the drops are weakly fair), and a
\* lock() call that can go through again and again eventually does (the
\* acquisitions are strongly fair). Nobody is obliged to call lock().
FairDeadlock ==
    /\ \A t \in LockThreads :
          /\ SF_vars(AcquireToken(t))
          /\ \A i \in 1..Len(lock_stdio) : SF_vars(LockStdio(t, i))
          /\ WF_vars(DropTerminalLock(t))
          /\ \A i \in 1..Len(TerminalLock) : WF_vars(DropField(t, i))
    /\ SF_vars(DirectGet)
    /\ WF_vars(DirectRelease)

SpecDeadlock == InitIO /\ [][NextDeadlock]_vars /\ FairDeadlock

\* terminal() and the lock protocol in a process none of whose standard
\* streams is a terminal: threads resolve a handle and lock it, next to a
\* direct user of the standard streams.
InitC ==
    /\ env \in {e \in Envs : \A s \in Streams : ~is_terminal(e, s)}
    /\ term = [t \in LockThreads |-> NoTerminal]
    /\ mode = Cooked
    /\ InitLock
    /\ InitResolve
    /\ InitNest
    /\ InitFiles
    /\ InitIo
    /\ InitOther

\* Terminal::lock is a method of a Terminal: a thread calls it on a handle
\* it has.
LockHandle(t) ==
    /\ term[t] # NoTerminal
    /\ LockCall(t)

NextControlling ==
    \/ CallTerminal
    \/ EnvChange
    \/ \E t \in LockThreads : TakeHandle(t)
    \/ \E t \in LockThreads : LockHandle(t)
    \/ \E t \in LockThreads : AcquireToken(t)
    \/ \E t \in LockThreads : \E i \in 1..Len(lock_stdio) : LockStdio(t, i)
    \/ \E t \in LockThreads : DropTerminalLock(t)
    \/ \E t \in LockThreads : \E i \in 1..Len(TerminalLock) : DropField(t, i)
    \/ \E s \in Streams : DirectLock(s)
    \/ DirectUnlock

SpecControlling == InitC /\ [][NextControlling]_vars

\* Any io::Error stored, rebuilt again and again.
InitE ==
    /\ env = DefaultEnv
    /\ term = [t \in LockThreads |-> NoTerminal]
    /\ mode = Cooked
    /\ InitLock
    /\ InitResolve
    /\ InitNest
    /\ InitFiles
    /\ InitIo
    /\ InitDirect
    /\ InitWin
    /\ InitHist
    /\ stored \in IoErrors
    /\ clones = <<>>

NextError == ShareError

SpecError == InitE /\ [][NextError]_vars

\* Windows: every combination of the standard handles and of the outcome
\* of opening CONIN$ / CONOUT$, the console in any mode.
InitW ==
    /\ env = DefaultEnv
    /\ term = [t \in LockThreads |-> NoTerminal]
    /\ mode = Cooked
    /\ InitLock
    /\ InitResolve
    /\ InitNest
    /\ InitFiles
    /\ InitIo
    /\ InitDirect
    /\ InitErr
    /\ InitHist
    /\ wenv \in WinEnvs
    /\ wterm = None
    /\ wmode \in ConsoleModes
    /\ wguard = NoGuard
    /\ wlog = NoWinLog

NextWindows == WinTerminal \/ WinEnableRawMode \/ WinDropRawModeGuard

SpecWindows == InitW /\ [][NextWindows]_vars

(***************************************************************************)
(* Properties                                                              *)
(***************************************************************************)

\* C1: mutual exclusion of the terminal lock. In every reachable state at
\* most one TerminalLock exists in the process, and the thread it belongs
\* to is the holder of TERMINAL_LOCK; so while one thread holds a
\* TerminalLock no lock() call of another thread has returned one.
C1_MutualExclusion ==
    /\ \A a \in LockThreads : \A b \in LockThreads :
          (Alive(a) /\ Alive(b)) => a = b
    /\ \A t \in LockThreads : Alive(t) => mutexOwner = t

\* C1 witness: one thread holds a TerminalLock while the lock() call of the
\* other is blocked on the token.
C1_Witness ==
    /\ pc["t1"] = "locked"
    /\ pc["t2"] = "lock_token"
    /\ lockResult["t2"] = "pending"

\* C2: lock ordering as the claim states it. A thread holds the native lock
\* of a standard stream through lock() only while it holds the process-wide
\* token: the token is acquired before the stream locks and every stream
\* lock is released before the token is.
C2_StreamLocksInsideToken ==
    \A t \in LockThreads : \A s \in Streams :
        stdioOwner[s] = t => mutexOwner = t

\* C3: for the whole lifetime of a TerminalLock its holder holds the native
\* lock of exactly the streams whose aliasing flag is set on its handle (so
\* the direct user of such a stream does not hold it and cannot take it),
\* and in no state does a thread hold, through lock(), the lock of a stream
\* whose flag is not set.
C3_AliasedStreamsLocked ==
    \A t \in LockThreads :
        /\ Alive(t) =>
              /\ term[t].same_as_stdin => (stdioOwner["stdin"] = t /\ dpc # "stdin")
              /\ term[t].same_as_stdout => (stdioOwner["stdout"] = t /\ dpc # "stdout")
              /\ term[t].same_as_stderr => (stdioOwner["stderr"] = t /\ dpc # "stderr")
        /\ stdioOwner["stdin"] = t => term[t].same_as_stdin
        /\ stdioOwner["stdout"] = t => term[t].same_as_stdout
        /\ stdioOwner["stderr"] = t => term[t].same_as_stderr

\* C3 witness: a TerminalLock on a handle that aliases stderr but not stdin
\* is alive, its holder holds the lock of stderr, and the direct user holds
\* the lock of the stream that is not aliased.
C3_Witness ==
    /\ pc["t1"] = "locked"
    /\ term["t1"].same_as_stderr
    /\ ~term["t1"].same_as_stdin
    /\ stdioOwner["stderr"] = "t1"
    /\ dpc = "stdin"

\* C4: poisoning is surfaced, not recovered. From the moment a thread
\* panics while it holds the token no other thread has a TerminalLock; once
\* that thread has let go of the token the poison flag is set, and from
\* then on no thread gets past the token: no lock() call returns a
\* TerminalLock, the token is only ever held by a call that is returning
\* the PoisonError; and a lock() call has returned PoisonError only when
\* the token is poisoned.
C4_PoisonSurfaced ==
    /\ \A t \in LockThreads : panicking[t] =>
          /\ \A u \in LockThreads \ {t} : ~Alive(u)
          /\ mutexOwner # t => poisoned
    /\ poisoned => \A t \in LockThreads :
          /\ ~Alive(t)
          /\ pc[t] \notin {"lock_stdin", "lock_stdout", "lock_stderr", "drop_1"}
          /\ mutexOwner = t => pc[t] = "lock_poisoned"
    /\ \A t \in LockThreads :
          /\ lockResult[t] \in {"none", "pending", "Ok", "PoisonError"}
          /\ lockResult[t] = "PoisonError" => poisoned

\* C4 witness: t1 panicked while it held the token and is gone, and a later
\* lock() call of t2 has returned the PoisonError.
C4_Witness ==
    /\ pc["t1"] = "dead"
    /\ poisoned
    /\ pc["t2"] = "idle"
    /\ lockResult["t2"] = "PoisonError"

\* C5: raw-mode round trip. A guard activated on a terminal that was not in
\* raw mode has captured the mode found (pre) and applied its raw variant;
\* while the guard is alive nothing has been restored; a thread that has
\* left its TerminalLock, normally or by unwinding, has no guard left; and
\* once the guard is released the captured mode has been written back
\* exactly once, after which, when that write succeeded, the terminal mode
\* was the mode found immediately before the activation.
C5_RawModeRoundTrip ==
    \A t \in LockThreads :
        /\ ~Alive(t) => (~guard[t].alive /\ rawInfo[t].phase # "active")
        /\ (rawInfo[t].phase \in {"active", "released"}
              /\ (rawInfo[t].pre \cap {"ECHO", "ICANON"}) # {}) =>
              /\ rawInfo[t].stored = Some(rawInfo[t].pre)
              /\ rawInfo[t].writes = 1
              /\ rawInfo[t].applied = rawInfo[t].pre \ {"ECHO", "ICANON"}
              /\ rawInfo[t].phase = "active" =>
                    /\ guard[t] = [alive |-> TRUE, old_termios |-> Some(rawInfo[t].pre)]
                    /\ rawInfo[t].restores = 0
                    /\ mode = rawInfo[t].applied
              /\ rawInfo[t].phase = "released" =>
                    /\ rawInfo[t].restores = 1
                    /\ rawInfo[t].restoreOk => rawInfo[t].after = rawInfo[t].pre

\* C5 witness: t1 activated raw mode on a cooked terminal, panicked, and the
\* unwinding released the guard with a successful restore: the terminal is
\* back in the mode it had before the activation.
C5_Witness ==
    /\ rawInfo["t1"].phase = "released"
    /\ rawInfo["t1"].unwound
    /\ rawInfo["t1"].restoreOk
    /\ rawInfo["t1"].pre = {"ECHO", "ICANON", "ISIG"}
    /\ rawInfo["t1"].applied = {"ISIG"}
    /\ mode = {"ECHO", "ICANON", "ISIG"}

\* C6: enable_raw_mode on a terminal that is already in raw mode writes no
\* mode and stores no previous mode in the guard, and the release of such a
\* guard writes none either: the mode is the one found (pre) after the
\* activation, while the guard lives, and after the release.
C6_AlreadyRawNoop ==
    \A t \in LockThreads :
        (rawInfo[t].phase \in {"active", "released"}
           /\ (rawInfo[t].pre \cap {"ECHO", "ICANON"}) = {}) =>
           /\ rawInfo[t].stored = None
           /\ rawInfo[t].writes = 0
           /\ rawInfo[t].applied = rawInfo[t].pre
           /\ rawInfo[t].restores = 0
           /\ rawInfo[t].after = rawInfo[t].pre
           /\ rawInfo[t].phase = "active" =>
                 /\ guard[t] = [alive |-> TRUE, old_termios |-> None]
                 /\ mode = rawInfo[t].pre

\* C6 witness: a guard activated on a terminal in raw mode has been
\* released and the terminal is still in that mode.
C6_Witness ==
    /\ rawInfo["t1"].phase = "released"
    /\ rawInfo["t1"].pre = {"ISIG"}
    /\ rawInfo["t1"].stored = None
    /\ ~guard["t1"].alive
    /\ mode = {"ISIG"}

\* C7: nested raw-mode guards. While an outer guard that applied raw mode
\* is alive every guard inside it has stored no mode; the release of an
\* inner guard writes nothing and leaves the terminal in the raw mode it
\* was in; and the release of the outer guard writes the mode found before
\* the outer activation back, so that the terminal is in that mode when
\* the write succeeds.
C7_NestedGuards ==
    /\ \A i \in 2..Len(guards) :
          guards[1].old_termios.some => guards[i].old_termios = None
    /\ (nest.op = "release" /\ Len(guards) >= 1 /\ guards[1].old_termios.some) =>
          /\ nest.writes = 0
          /\ mode = nest.before
          /\ (mode \cap {"ECHO", "ICANON"}) = {}
    /\ (nest.op = "release" /\ guards = <<>> /\ (nest.orig \cap {"ECHO", "ICANON"}) # {}) =>
          /\ nest.writes = 1
          /\ nest.ok => mode = nest.orig

\* C7 witness: inside an outer guard that applied raw mode to a cooked
\* terminal an inner guard was activated and released, and the outer guard
\* has then been released with a successful restore of the cooked mode.
C7_Witness ==
    /\ nest.op = "release"
    /\ guards = <<>>
    /\ nest.inner >= 1
    /\ nest.ok
    /\ nest.orig = {"ECHO", "ICANON", "ISIG"}
    /\ nest.before = {"ISIG"}
    /\ mode = {"ECHO", "ICANON", "ISIG"}

\* The order of the standard streams as the claim (and the doc comment of
\* terminal()) gives it, and the stream that order makes the candidate.
ClaimedOrder == <<"stderr", "stdin", "stdout">>

ClaimedCandidate(e) ==
    IF is_terminal(e, ClaimedOrder[1]) THEN ClaimedOrder[1]
    ELSE IF is_terminal(e, ClaimedOrder[2]) THEN ClaimedOrder[2]
    ELSE IF is_terminal(e, ClaimedOrder[3]) THEN ClaimedOrder[3]
    ELSE "/dev/tty"

\* C8: Unix resolution order as the claim states it. Every successful call
\* of terminal() took its file from the first of standard error, standard
\* input, standard output that is a terminal, and from /dev/tty only when
\* none is; with stdin and stdout terminals and stderr not, from stdin.
C8_ResolutionOrder ==
    \A i \in 1..Len(calls) :
        calls[i].res.ok => calls[i].res.val.from = ClaimedCandidate(calls[i].env)

\* C9: singleton resolution as the claim states it. Whatever the number of
\* calls of terminal(), one resolution attempt has been performed, at most
\* one Terminal value has been constructed, and every call has observed
\* the same outcome.
C9_SingleResolution ==
    /\ calls # <<>> => attempts = 1
    /\ Cardinality({i \in 1..Len(calls) : calls[i].res.ok}) <= 1
    /\ \A i \in 1..Len(calls) : calls[i].res = calls[1].res

\* C10: stable failure as the claim states it. After a call of terminal()
\* that failed every later call fails too, with the same error kind and the
\* same raw OS code, and resolution is not attempted again.
C10_StableFailure ==
    \A i \in 1..Len(calls) : \A j \in 1..Len(calls) :
        (i < j /\ ~calls[i].res.ok) =>
            /\ ~calls[j].res.ok
            /\ calls[j].res.err.kind = calls[i].res.err.kind
            /\ calls[j].res.err.raw = calls[i].res.err.raw
            /\ attempts <= i

\* C11: ownership decision for the candidate stream. A terminal that
\* terminal() took from a standard stream is a Borrowed file over the
\* descriptor of that very stream when the stream is open read-write, and
\* no descriptor is opened for it (the device-name lookup of the reopening
\* fails only for a stream open in one direction); it is an Owned file on a new descriptor, open on the
\* device of the stream, when the stream is open in one direction only. No
\* other combination occurs.
C11_OwnershipDecision ==
    \A i \in 1..Len(calls) :
        LET e == calls[i].env
            r == calls[i].res
        IN /\ (r.ok /\ r.val.from \in Streams) =>
                 LET c == r.val.from IN
                 /\ is_terminal(e, c)
                 /\ e.stream[c].rdwr =>
                       r.val.file = [tag |-> "Borrowed", fd |-> c, ino |-> e.stream[c].ino]
                 /\ ~e.stream[c].rdwr =>
                       r.val.file = [tag |-> "Owned", fd |-> "new", ino |-> e.stream[c].ino]
           /\ (~r.ok /\ r.err.raw = "ENOTTY") =>
                 \E c \in Streams : is_terminal(e, c) /\ ~e.stream[c].rdwr

\* C11 witness: standard error is not a terminal, standard output is one
\* and is open in one direction: the terminal is an owned descriptor on the
\* device of standard output.
C11_Witness ==
    /\ Len(calls) >= 1
    /\ ~is_terminal(calls[1].env, "stderr")
    /\ ~calls[1].env.stream["stdout"].rdwr
    /\ calls[1].res.ok
    /\ calls[1].res.val.from = "stdout"
    /\ calls[1].res.val.file.tag = "Owned"

\* C12: aliasing as the claim states it. Whenever some standard stream is
\* a terminal and open read-write, a successful terminal() call has reused
\* the descriptor of such a stream (a Borrowed file on a stream that is a
\* terminal and open read-write) and has opened no descriptor.
C12_ReadWriteStreamReused ==
    \A i \in 1..Len(calls) :
        LET e == calls[i].env
            r == calls[i].res
        IN (r.ok /\ \E s \in Streams : is_terminal(e, s) /\ e.stream[s].rdwr) =>
              /\ r.val.file.tag = "Borrowed"
              /\ r.val.file.fd \in Streams
              /\ r.val.from \in Streams
              /\ is_terminal(e, r.val.from) /\ e.stream[r.val.from].rdwr

\* C13: descriptor ownership safety. After any sequence of terminal()
\* calls and drops of the Terminal values, no descriptor of a standard
\* stream has been closed by the crate; a descriptor a call opened (the
\* reopened device, /dev/tty) is open as long as its Terminal is alive and
\* has been closed exactly once when the Terminal has been dropped or the
\* call failed after opening it; nothing else has been closed.
C13_DescriptorOwnership ==
    /\ \A s \in Streams : closed.std[s] = 0
    /\ \A i \in 1..MaxCalls :
          IF i > Len(calls) THEN closed.own[i] = 0
          ELSE LET f == candidate_file(calls[i].env)
                   owned == f.some /\ f.val.tag = "Owned"
               IN /\ i \in live => (calls[i].res.ok /\ closed.own[i] = 0)
                  /\ (i \notin live /\ owned) => closed.own[i] = 1
                  /\ ~owned => closed.own[i] = 0

\* C13 witness: the first call reopened the device of a stream, its
\* Terminal has been dropped and the descriptor closed once; the Terminal
\* of the second call is alive.
C13_Witness ==
    /\ Len(calls) = 2
    /\ calls[1].res.ok
    /\ calls[1].res.val.file.tag = "Owned"
    /\ calls[1].res.val.from \in Streams
    /\ 1 \notin live
    /\ closed.own[1] = 1
    /\ 2 \in live

\* C14: on Windows, when the input buffer of the terminal is a pipe of an
\* MSYS/Cygwin terminal, every enable_raw_mode call has failed with an
\* error of kind Unsupported without reading or writing the console mode:
\* the mode is the one before the call, no guard exists and no release of
\* a guard (no restore) ever takes place.
C14_MsysUnsupported ==
    (wterm.some /\ wterm.val.ok /\ wterm.val.val.conin.kind = "msys") =>
        /\ ~wguard.alive
        /\ wlog.op \in {"none", "enable"}
        /\ wlog.op = "enable" =>
              /\ ~wlog.ok
              /\ wlog.kind = "Unsupported"
              /\ wlog.reads = 0
              /\ wlog.writes = 0
              /\ wmode = wlog.pre

\* C14 witness: enable_raw_mode has been called on a terminal whose input
\* buffer is the standard input of an MSYS terminal, with the console mode
\* not raw, and has failed.
C14_Witness ==
    /\ wterm.some /\ wterm.val.ok
    /\ wterm.val.val.conin = [tag |-> "Borrowed", handle |-> "stdin", kind |-> "msys"]
    /\ wlog.op = "enable"
    /\ wlog.kind = "Unsupported"
    /\ wmode = ConsoleFlags

\* C15: Windows resolution. The input buffer is standard input when that
\* is a terminal and CONIN$ otherwise; the output buffer is standard error
\* when that is a terminal, else standard output when that is a terminal,
\* else CONOUT$; each is chosen without regard to the other, and the call
\* fails exactly when CONIN$ or CONOUT$ is needed and cannot be opened.
C15_WindowsResolution ==
    wterm.some =>
        LET r == wterm.val
            inTerm == wenv.std["stdin"] # "file"
            errTerm == wenv.std["stderr"] # "file"
            outTerm == wenv.std["stdout"] # "file"
            needIn == ~inTerm
            needOut == ~errTerm /\ ~outTerm
        IN /\ r.ok <=> /\ needIn => wenv.conin = "ok"
                       /\ needOut => wenv.conout = "ok"
           /\ r.ok =>
                 /\ inTerm => (r.val.conin.tag = "Borrowed" /\ r.val.conin.handle = "stdin")
                 /\ needIn => (r.val.conin.tag = "Owned" /\ r.val.conin.handle = "CONIN$")
                 /\ errTerm => (r.val.conout.tag = "Borrowed" /\ r.val.conout.handle = "stderr")
                 /\ (~errTerm /\ outTerm) =>
                       (r.val.conout.tag = "Borrowed" /\ r.val.conout.handle = "stdout")
                 /\ needOut => (r.val.conout.tag = "Owned" /\ r.val.conout.handle = "CONOUT$")

\* C15 witness: standard input is not a terminal, standard error and
\* standard output are: the terminal reads from CONIN$, which it opened,
\* and writes to standard error.
C15_Witness ==
    /\ wterm.some /\ wterm.val.ok
    /\ wenv.std = [stdin |-> "file", stdout |-> "console", stderr |-> "console"]
    /\ wterm.val.val.conin.handle = "CONIN$"
    /\ wterm.val.val.conout.handle = "stderr"

\* C16: the terminal mode is only mutated under a TerminalLock. A thread
\* that has a RawModeGuard has a TerminalLock and holds the process-wide
\* token; and every step that reads or writes the mode for the crate (the
\* activation and the release of a guard) is taken by a thread that has a
\* TerminalLock and holds the token before and after the step, so the
\* restore precedes the release of the token.
C16_ModeUnderLock ==
    /\ [](\A t \in LockThreads :
             guard[t].alive => (Alive(t) /\ mutexOwner = t))
    /\ [][\A t \in LockThreads :
             (rawInfo'[t] # rawInfo[t] \/ guard'[t] # guard[t]) =>
                 /\ Alive(t) /\ mutexOwner = t
                 /\ Alive(t)' /\ mutexOwner' = t]_vars
    /\ [][mode' # mode => \E t \in LockThreads :
             /\ rawInfo'[t] # rawInfo[t]
             /\ mutexOwner = t /\ mutexOwner' = t]_vars

\* C16 witness: t1 activated raw mode and its guard restored the mode while
\* t1 still has its TerminalLock and the token.
C16_Witness ==
    /\ rawInfo["t1"].phase = "released"
    /\ rawInfo["t1"].restores = 1
    /\ rawInfo["t1"].restoreOk
    /\ pc["t1"] = "locked"
    /\ mutexOwner = "t1"

\* C19: best-effort restore. The release of a RawModeGuard, whether its
\* restoring write succeeds or fails, completes in one step that starts no
\* panic, returns no error to anybody and issues at most one write (no
\* retry); the token is poisoned only when a thread panicked, and a thread
\* whose restore failed and that did not panic has afterwards let go of
\* its TerminalLock normally, token and stream locks, leaving the token
\* unpoisoned unless another thread panicked.
C19_BestEffortRestore ==
    /\ [](\A t \in LockThreads :
             /\ rawInfo[t].phase = "released" => rawInfo[t].restores <= 1
             /\ (rawInfo[t].phase = "released" /\ ~rawInfo[t].restoreOk
                   /\ pc[t] = "idle") =>
                   /\ ~panicking[t]
                   /\ mutexOwner # t
                   /\ \A s \in Streams : stdioOwner[s] # t
                   /\ poisoned => \E u \in LockThreads \ {t} : panicking[u])
    /\ [][\A t \in LockThreads :
             (guard[t].alive /\ ~guard'[t].alive) =>
                 /\ rawInfo'[t].phase = "released"
                 /\ rawInfo'[t].restores <= 1
                 /\ panicking' = panicking
                 /\ pc' = pc
                 /\ poisoned' = poisoned
                 /\ lockResult' = lockResult]_vars

\* C19 witness: the restoring write of t1's guard failed (the terminal is
\* still in the raw mode t1 applied), t1 has not panicked and has released
\* its TerminalLock; the token is free and not poisoned.
C19_Witness ==
    /\ rawInfo["t1"].phase = "released"
    /\ rawInfo["t1"].restores = 1
    /\ ~rawInfo["t1"].restoreOk
    /\ rawInfo["t1"].pre # mode
    /\ pc["t1"] = "idle"
    /\ ~panicking["t1"]
    /\ mutexOwner = NoThread
    /\ ~poisoned

\* C17: a read, write or flush on an unlocked Terminal handle runs under
\* the full terminal lock of its own. While the operation is performed its
\* thread holds the token and the lock of every aliased stream, and no
\* other thread has a TerminalLock or performs such an operation (so the
\* call waited for them, and the operations are totally ordered); a thread
\* whose call has returned holds neither the token nor a stream lock; once
\* the token is poisoned no call gets past the token, so no operation is
\* performed any more, and a call that returned the poisoning error found
\* the token poisoned.
C17_IoUnderOwnLock ==
    \A t \in LockThreads :
        /\ pc[t] = "io" =>
              /\ op[t] \in IoOps
              /\ mutexOwner = t
              /\ ~poisoned
              /\ term[t].same_as_stdin => stdioOwner["stdin"] = t
              /\ term[t].same_as_stdout => stdioOwner["stdout"] = t
              /\ term[t].same_as_stderr => stdioOwner["stderr"] = t
              /\ \A u \in LockThreads \ {t} : ~Alive(u) /\ pc[u] # "io"
        /\ pc[t] = "idle" =>
              /\ mutexOwner # t
              /\ \A s \in Streams : stdioOwner[s] # t
        /\ (op[t] \in IoOps /\ lockResult[t] = "PoisonError") => poisoned
        /\ (op[t] \in IoOps /\ poisoned) =>
              pc[t] \notin {"lock_stdin", "lock_stdout", "lock_stderr", "io", "drop_1"}

\* C17 witness: t1 is performing a write on its handle, which aliases
\* stderr, under its own lock, while the lock() call of t2 waits for the
\* token.
C17_Witness ==
    /\ pc["t1"] = "io"
    /\ op["t1"] = "write"
    /\ term["t1"].same_as_stderr
    /\ stdioOwner["stderr"] = "t1"
    /\ pc["t2"] = "lock_token"
    /\ op["t2"] = "lock"

\* A lock() call of a thread of the crate waits for a stream the direct
\* thread holds, while the direct thread waits for a stream that thread
\* holds: neither can go on.
Deadlock ==
    \E t \in LockThreads : \E i \in 1..Len(lock_stdio) :
        /\ pc[t] = LockPc[i]
        /\ same_as(term[t], lock_stdio[i])
        /\ stdioOwner[lock_stdio[i]] = DirectUser
        /\ dwant \in Streams
        /\ stdioOwner[dwant] = t

\* The lock() call of t has not returned yet.
InLock(t) == pc[t] \in {"lock_token", "lock_stdin", "lock_stdout", "lock_stderr"}

Rank(s) == IF s = "stdin" THEN 1 ELSE IF s = "stdout" THEN 2 ELSE 3

\* The direct thread takes the stream locks it holds together in the order
\* of lock_stdio (stdin, stdout, stderr); holding one lock at a time is the
\* special case.
DirectOrdered ==
    LET q == IF dwant \in Streams THEN Append(dheld, dwant) ELSE dheld
    IN \A i \in 1..Len(q) : \A j \in 1..Len(q) :
          i < j => Rank(q[i]) < Rank(q[j])

C20_SharedErrorEquivalent ==
    \A i \in 1..Len(clones) :
        /\ error_kind(clones[i]) = error_kind(stored)
        /\ raw_os_error(clones[i]) = raw_os_error(stored)
        /\ stored.repr = "Os" => clones[i] = [repr |-> "Os", code |-> stored.code]
        /\ stored.repr # "Os" =>
              /\ clones[i].repr = "Custom"
              /\ clones[i].payload = [tag |-> "SharedIoError", cause |-> stored]
        /\ \A j \in 1..Len(clones) : clones[j] = clones[i]

\* C20 witness: an error without OS code, of kind Unsupported, has been
\* rebuilt twice.
C20_Witness ==
    /\ stored = [repr |-> "Custom", kind |-> "Unsupported",
                 payload |-> "MsysUnsupportedError"]
    /\ Len(clones) = 2
    /\ error_kind(clones[2]) = "Unsupported"
    /\ raw_os_error(clones[2]) = None
\* C21: the controlling terminal. A terminal() call made while none of the
\* three standard streams is a terminal succeeds exactly when /dev/tty can
\* be opened, whatever else the OS fails, and returns the error of the open
\* otherwise; the Terminal it returns owns a new descriptor on /dev/tty,
\* still open, and has the three aliasing flags false; and a thread locking
\* such a handle never holds the lock of a standard stream, while it holds
\* the token for as long as its TerminalLock lives.
C21_ControllingTerminal ==
    /\ \A i \in 1..Len(calls) :
          LET e == calls[i].env
              r == calls[i].res
          IN (\A s \in Streams : ~is_terminal(e, s)) =>
                /\ r.ok <=> e.devtty = "ok"
                /\ ~r.ok => (r.err.raw = e.devtty /\ i \notin live)
                /\ r.ok =>
                      /\ r.val.file = [tag |-> "Owned", fd |-> "new", ino |-> "devtty"]
                      /\ r.val.from = "/dev/tty"
                      /\ ~r.val.same_as_stdin
                      /\ ~r.val.same_as_stdout
                      /\ ~r.val.same_as_stderr
                      /\ i \in live
                /\ closed.own[i] = 0
    /\ \A t \in LockThreads :
          (term[t] # NoTerminal /\ term[t].from = "/dev/tty") =>
             /\ \A s \in Streams : stdioOwner[s] # t
             /\ Alive(t) => mutexOwner = t

\* C21 witness: the first call failed on /dev/tty, the second one succeeded
\* although the open-mode query would fail; t1 holds a TerminalLock on the
\* handle while the direct user holds the lock of standard input.
C21_Witness ==
    /\ Len(calls) = 2
    /\ ~calls[1].res.ok
    /\ calls[1].res.err.raw = "ENXIO"
    /\ calls[2].res.ok
    /\ calls[2].env.fail = "fcntl"
    /\ term["t1"] = calls[2].res.val
    /\ pc["t1"] = "locked"
    /\ mutexOwner = "t1"
    /\ dpc = "stdin"

\* The first standard stream, in the order terminal() tests them, that is a
\* terminal; the streams tested up to and including a stream; and the error
\* the OS raises while stream s is handled: on the open-mode query, on the
\* reopening of a stream open in one direction, or on the comparison with
\* the three standard streams.
FirstTerminal(e) ==
    IF is_terminal(e, "stderr") THEN "stderr"
    ELSE IF is_terminal(e, "stdout") THEN "stdout"
    ELSE IF is_terminal(e, "stdin") THEN "stdin"
    ELSE "none"

TestedUpTo(s) ==
    IF s = "stderr" THEN {"stderr"}
    ELSE IF s = "stdout" THEN {"stderr", "stdout"}
    ELSE {"stderr", "stdout", "stdin"}

HandlingError(e, s) ==
    IF e.fail = "fcntl" THEN "EBADF"
    ELSE IF e.fail = "ptsname" /\ ~e.stream[s].rdwr THEN "ENOTTY"
    ELSE IF e.fail = "fstat" THEN "EBADF"
    ELSE "none"

\* C22: an error on the first terminal stream ends the resolution. When the
\* OS fails the open-mode query, the reopening or the device/inode
\* comparison for the first standard stream that is a terminal, the call
\* of terminal() returns that error and no Terminal: no stream after that
\* one has been tested and /dev/tty has not been opened, whatever the later
\* streams and /dev/tty are.
C22_FirstErrorEndsResolution ==
    \A i \in 1..Len(calls) :
        LET e == calls[i].env
            s == FirstTerminal(e)
        IN (s # "none" /\ HandlingError(e, s) # "none") =>
              /\ ~calls[i].res.ok
              /\ calls[i].res.err.raw = HandlingError(e, s)
              /\ calls[i].tested = TestedUpTo(s)
              /\ ~calls[i].fallback
              /\ i \notin live

\* C22 witness: standard error is a file, standard output a terminal open
\* in one direction whose device name cannot be looked up, standard input
\* a terminal open read-write and /dev/tty can be opened: the call failed
\* with the error of the lookup and tested standard input not at all.
C22_Witness ==
    /\ Len(calls) >= 1
    /\ ~is_terminal(calls[1].env, "stderr")
    /\ is_terminal(calls[1].env, "stdout")
    /\ ~calls[1].env.stream["stdout"].rdwr
    /\ is_terminal(calls[1].env, "stdin")
    /\ calls[1].env.stream["stdin"].rdwr
    /\ calls[1].env.devtty = "ok"
    /\ calls[1].env.fail = "ptsname"
    /\ ~calls[1].res.ok
    /\ calls[1].res.err.raw = "ENOTTY"
    /\ calls[1].tested = {"stderr", "stdout"}
    /\ ~calls[1].fallback

\* The locks thread t holds: the process-wide token and the native locks of
\* the standard streams.
Held(t) ==
    {s \in Streams : stdioOwner[s] = t}
        \cup (IF mutexOwner = t THEN {"TERMINAL_LOCK"} ELSE {})

\* C23: a poisoned lock() leaves nothing held. A thread that is not inside
\* a lock() call or a TerminalLock holds no lock, so it holds none when it
\* calls lock(); a call that found the token poisoned has acquired no
\* stream lock; and the step in which a call returns the PoisonError
\* leaves the caller without the token and without any stream lock, and
\* changes the holder of no stream lock: the caller holds what it held
\* before the call.
C23_PoisonedLockHoldsNothing ==
    /\ [](\A t \in LockThreads :
             /\ pc[t] \in {"idle", "lock_token"} => Held(t) = {}
             /\ pc[t] = "lock_poisoned" => Held(t) = {"TERMINAL_LOCK"})
    /\ [][\A t \in LockThreads :
             (lockResult[t] # "PoisonError" /\ lockResult'[t] = "PoisonError") =>
                 /\ pc'[t] = "idle"
                 /\ Held(t)' = {}
                 /\ stdioOwner' = stdioOwner
                 /\ mutexOwner' # t]_vars

\* C23 witness: the lock() call of t2 on a handle that aliases standard
\* input has returned the PoisonError while the direct user holds the lock
\* of standard input; nobody holds the token.
C23_Witness ==
    /\ poisoned
    /\ pc["t2"] = "idle"
    /\ lockResult["t2"] = "PoisonError"
    /\ term["t2"].same_as_stdin
    /\ stdioOwner["stdin"] = DirectUser
    /\ mutexOwner = NoThread

\* C24: raw mode does not outlive its guards. Nothing but the activation
\* and the release of a guard changes the terminal mode; and as long as no
\* restoring write has failed, in every state in which no thread has a
\* RawModeGuard the terminal mode is the mode the first activation found,
\* whatever the threads have locked, activated, released or panicked in
\* since.
C24_RawModeLeavesWithGuards ==
    /\ []((firstMode.some /\ ~restoreFailed
              /\ \A t \in LockThreads : ~guard[t].alive) =>
                 mode = firstMode.val)
    /\ [][mode' # mode => \E t \in LockThreads : guard'[t] # guard[t]]_vars

\* C24 witness: t1 activated raw mode on a cooked terminal and released the
\* guard, t2 did the same after it and was unwound by a panic; every
\* restore succeeded, no guard is left and the terminal is cooked again.
C24_Witness ==
    /\ firstMode = Some({"ECHO", "ICANON", "ISIG"})
    /\ ~restoreFailed
    /\ rawInfo["t1"].phase = "released"
    /\ rawInfo["t1"].applied = {"ISIG"}
    /\ rawInfo["t2"].phase = "released"
    /\ rawInfo["t2"].applied = {"ISIG"}
    /\ rawInfo["t2"].unwound
    /\ \A t \in LockThreads : ~guard[t].alive
    /\ mode = {"ECHO", "ICANON", "ISIG"}

====
